---- MODULE Spec2Model ----
(***************************************************************************)
(* youtube-upload-mcp: the OAuth2 loopback flow (authenticate and the      *)
(* callback listener of oauth_server.py), the token file, and the tools    *)
(* check_auth_status and upload_from_url.                                  *)
(*                                                                         *)
(* Three specifications share the variables:                               *)
(*   Spec       authenticate() attempts (coroutines of one asyncio loop),  *)
(*              their listener threads, the requests sent to the port,     *)
(*              and the save of the token file;                            *)
(*   SpecStore  check_auth_status in two processes sharing the token file, *)
(*              and upload_from_url, with the refresh step.                *)
(*   FairSpec   all the tools together under a bounded load, with the       *)
(*              fairness of threads, coroutines and time.                  *)
(* A coroutine runs without interleaving with the other coroutines of its  *)
(* process until it awaits (only asyncio.sleep in authenticate's poll loop *)
(* suspends); threads and other processes interleave at every step.        *)
(***************************************************************************)
EXTENDS Naturals, FiniteSets, Sequences, TLC

VARIABLES
    hasId, hasSecret,          \* CLIENT_ID / CLIENT_SECRET are set
    authorization_code, state, \* OAuthCallbackHandler class attributes
    codeBy, codeReq,           \* history: listener and request that wrote authorization_code
    stateReq,                  \* history: request that wrote state
    codeSt,                    \* history: the state parameter of the request that wrote the code
    pc, result,                \* authenticate(): position and returned result, per attempt
    browser,                   \* webbrowser.open was called by the attempt
    expired,                   \* (now - start_time).total_seconds() > timeout, per attempt
    url_state, url_code,       \* the values read into callback_url
    usedBy, usedReq,           \* history: provenance of the code read into callback_url
    usedStReq, usedSt,         \* history: request of the state read, state sent with the code read
    got,                       \* history: the attempt's own redirect was captured in time
    tokens,                    \* fetch_token returned tokens to the attempt
    clobbered,                 \* history: a reset cleared a value while another attempt ran
    overlap,                   \* history: the attempt was called while another one ran
    lpc, hpc, hreq, hser,      \* listener thread, its handler, the request handled, its serial
    resp,                      \* status of the last response the listener sent (0: none)
    fullSeen,                  \* history: a callback request with code and state was accepted
    shut,                      \* the thread running server.shutdown
    port,                      \* the listener bound to PORT (0: free)
    nreq,                      \* requests accepted so far
    running,                   \* the coroutine holding the event loop of process 1
    file,                      \* content of TOKEN_PATH
    now,                       \* wall clock of the credential store
    cpc, ccred, cres,          \* check_auth_status per process: position, credentials, result
    seen,                      \* history: what json.load read, per process
    ctried, cfailed,           \* history: refresh was called / raised
    ino,                       \* the file TOKEN_PATH names: counts the os.remove calls done
    cino, uino,                \* the file a writer holds open, as numbered by ino
    upc, ucred, ures,          \* upload_from_url per call: position, credentials, result
    dl, ut,                    \* history: outcome of download_video, upload_to_youtube entered
    absentAtCheck,             \* history: TOKEN_PATH was absent at line 315
    utried, ufailed,           \* history: refresh was called / raised in upload_to_youtube
    useen,                     \* history: what json.load read in upload_to_youtube
    inserted                   \* history: the credentials handed to videos().insert

authVars == <<hasId, hasSecret, authorization_code, state, codeBy, codeReq, stateReq, codeSt, pc, result,
              browser, expired, url_state, url_code, usedBy, usedReq, usedStReq, usedSt, got, tokens,
              clobbered, overlap, lpc, hpc, hreq, hser, resp, fullSeen, shut, port, nreq>>
storeVars == <<now, cpc, ccred, cres, seen, ctried, cfailed, ino, cino, upc, ucred,
               ures, dl, ut, absentAtCheck, utried, ufailed, uino, useen, inserted>>
vars == <<authVars, storeVars, running, file>>

\* ---------------------------------------------------------------- bounds
MaxAttempts == 2
MaxRequests == 2
MaxNow == 2
MaxUploads == 1

Attempts == 1..MaxAttempts
Procs == {1, 2}
Uploads == 1..MaxUploads

\* ---------------------------------------------------------------- values
None == 0
\* a code or state value no authorization URL of this process produced
Forged == MaxAttempts + 1
\* expiry of a credential issued or refreshed now: beyond the clock's horizon
Future == MaxNow + 1

Free == <<"free", 0>>

Absent == [kind |-> "absent", rt |-> FALSE, exp |-> 0, src |-> "none"]
\* the file just truncated by open(TOKEN_PATH, 'w'), or left partly written
Torn == [kind |-> "torn", rt |-> FALSE, exp |-> 0, src |-> "none"]
Cred(rt, exp, src) == [kind |-> "cred", rt |-> rt, exp |-> exp, src |-> src]
NoCred == [kind |-> "none", rt |-> FALSE, exp |-> 0, src |-> "none"]

\* credentials.expired
Expired(c) == c.exp <= now

CallbackPath == "/oauth2callback"
Redirect(b) == [path |-> CallbackPath, code |-> b, st |-> b]
NoParams == [path |-> CallbackPath, code |-> None, st |-> None]
ForgedReq == [path |-> CallbackPath, code |-> Forged, st |-> Forged]
OtherPath == [path |-> "/favicon.ico", code |-> None, st |-> None]
\* a callback request that carries a code and no state
CodeOnly == [path |-> CallbackPath, code |-> Forged, st |-> None]
NoReq == [path |-> "", code |-> None, st |-> None]

\* line 18 with "or": one parameter is enough
BothParams_Either(r) == r.st # None \/ r.code # None

\* line 18: 'state' in params and 'code' in params
BothParams(r) == r.st # None /\ r.code # None

\* a request to the callback path that carries both parameters
HasBoth(r) == r.path = CallbackPath /\ r.st # None /\ r.code # None

\* what may be sent to the port: the provider's redirect for an attempt whose
\* authorization URL was opened, or any request of a local client
Incoming == {Redirect(b) : b \in {x \in Attempts : browser[x]}}
              \cup {NoParams, CodeOnly, ForgedReq, OtherPath}

\* ---------------------------------------------------------------- Init
InitAuth ==
    /\ hasId \in BOOLEAN /\ hasSecret \in BOOLEAN
    /\ authorization_code = None /\ state = None
    /\ codeBy = 0 /\ codeReq = 0 /\ stateReq = 0 /\ codeSt = None
    /\ pc = [a \in Attempts |-> "idle"]
    /\ result = [a \in Attempts |-> "none"]
    /\ browser = [a \in Attempts |-> FALSE]
    /\ expired = [a \in Attempts |-> FALSE]
    /\ url_state = [a \in Attempts |-> None]
    /\ url_code = [a \in Attempts |-> None]
    /\ usedBy = [a \in Attempts |-> 0]
    /\ usedReq = [a \in Attempts |-> 0]
    /\ usedStReq = [a \in Attempts |-> 0]
    /\ usedSt = [a \in Attempts |-> None]
    /\ got = [a \in Attempts |-> FALSE]
    /\ tokens = [a \in Attempts |-> FALSE]
    /\ clobbered = FALSE
    /\ overlap = [a \in Attempts |-> FALSE]
    /\ lpc = [a \in Attempts |-> "none"]
    /\ hpc = [a \in Attempts |-> "none"]
    /\ hreq = [a \in Attempts |-> NoReq]
    /\ hser = [a \in Attempts |-> 0]
    /\ resp = [a \in Attempts |-> 0]
    /\ fullSeen = FALSE
    /\ shut = [a \in Attempts |-> "none"]
    /\ port = 0
    /\ nreq = 0

InitStore ==
    /\ now = 0
    /\ cpc = [p \in Procs |-> "idle"]
    /\ ccred = [p \in Procs |-> NoCred]
    /\ cres = [p \in Procs |-> "none"]
    /\ seen = [p \in Procs |-> NoCred]
    /\ ctried = [p \in Procs |-> FALSE]
    /\ cfailed = [p \in Procs |-> FALSE]
    /\ ino = 0
    /\ cino = [p \in Procs |-> 0]
    /\ uino = [u \in Uploads |-> 0]
    /\ upc = [u \in Uploads |-> "idle"]
    /\ ucred = [u \in Uploads |-> NoCred]
    /\ ures = [u \in Uploads |-> "none"]
    /\ dl = [u \in Uploads |-> "none"]
    /\ ut = [u \in Uploads |-> FALSE]
    /\ absentAtCheck = [u \in Uploads |-> FALSE]
    /\ utried = [u \in Uploads |-> FALSE]
    /\ ufailed = [u \in Uploads |-> FALSE]
    /\ useen = [u \in Uploads |-> NoCred]
    /\ inserted = [u \in Uploads |-> NoCred]

\* the token file left by an earlier run: none, or a complete credential
StoredAtStart == {Absent} \cup {Cred(rt, exp, "old") : rt \in BOOLEAN, exp \in 0..Future}

Init ==
    /\ InitAuth /\ InitStore
    /\ running = Free
    /\ file \in {Absent, Cred(TRUE, Future, "old")}

\* ---------------------------------------------------------------- authenticate
\* the test of line 110 written with "and": one missing value goes unnoticed
ConfigMissing_OnlyBoth == ~hasId /\ ~hasSecret

\* line 110: not CLIENT_ID or not CLIENT_SECRET
ConfigMissing == ~hasId \/ ~hasSecret

Active(a) == pc[a] \notin {"idle", "done"}

Return(a, r) ==
    /\ pc' = [pc EXCEPT ![a] = "done"]
    /\ result' = [result EXCEPT ![a] = r]
    /\ running' = Free

Goto(a, l) ==
    /\ pc' = [pc EXCEPT ![a] = l]
    /\ UNCHANGED <<result, running>>

\* the tool is invoked and runs to line 110; attempts are numbered in call order
AuthCall(a) ==
    /\ pc[a] = "idle" /\ running = Free
    /\ \A b \in Attempts : b < a => pc[b] # "idle"
    /\ IF ConfigMissing
         THEN Return(a, "config")
         ELSE /\ pc' = [pc EXCEPT ![a] = "reset_code"]
              /\ running' = <<"auth", a>>
              /\ UNCHANGED result
    /\ overlap' = [overlap EXCEPT ![a] = \E b \in Attempts \ {a} : Active(b)]
    /\ UNCHANGED <<hasId, hasSecret, authorization_code, state, codeBy, codeReq, stateReq, codeSt, browser,
                   expired, url_state, url_code, usedBy, usedReq, usedStReq, usedSt, got, tokens, clobbered,
                   lpc, hpc, hreq, hser, resp, fullSeen, shut, port, nreq, storeVars, file>>

\* line 116
ResetCode(a) ==
    /\ pc[a] = "reset_code"
    /\ authorization_code' = None
    /\ codeBy' = 0 /\ codeReq' = 0 /\ codeSt' = None
    /\ clobbered' = (clobbered \/ (authorization_code # None
                                    /\ \E b \in Attempts \ {a} : Active(b)))
    /\ Goto(a, "reset_state")
    /\ UNCHANGED <<hasId, hasSecret, state, stateReq, browser, expired, url_state, url_code,
                   usedBy, usedReq, usedStReq, usedSt, got, tokens, overlap, lpc, hpc, hreq, hser, resp, fullSeen, shut, port, nreq,
                   storeVars, file>>

\* line 117
ResetState(a) ==
    /\ pc[a] = "reset_state"
    /\ state' = None
    /\ stateReq' = 0
    /\ clobbered' = (clobbered \/ (state # None /\ \E b \in Attempts \ {a} : Active(b)))
    /\ Goto(a, "launch")
    /\ UNCHANGED <<hasId, hasSecret, authorization_code, codeBy, codeReq, codeSt, browser, expired,
                   url_state, url_code, usedBy, usedReq, usedStReq, usedSt, got, tokens, overlap, lpc, hpc, hreq, hser, resp, fullSeen,
                   shut, port, nreq, storeVars, file>>

\* lines 119-146: the flow and its state value (the attempt's number), the browser,
\* the listener thread, start_time
Launch(a) ==
    /\ pc[a] = "launch"
    /\ browser' = [browser EXCEPT ![a] = TRUE]
    /\ lpc' = [lpc EXCEPT ![a] = "starting"]
    /\ Goto(a, "loop")
    /\ UNCHANGED <<hasId, hasSecret, authorization_code, state, codeBy, codeReq, stateReq, codeSt, expired,
                   url_state, url_code, usedBy, usedReq, usedStReq, usedSt, got, tokens, clobbered, overlap, hpc, hreq,
                   hser, resp, fullSeen, shut, port, nreq, storeVars, file>>

ThreadAlive(a) == lpc[a] \in {"starting", "serving", "handling"}

authFrame == <<hasId, hasSecret, authorization_code, state, codeBy, codeReq, stateReq, codeSt, browser,
               expired, url_state, url_code, usedBy, usedReq, usedStReq, usedSt, got, tokens, clobbered, overlap,
               lpc, hpc, hreq, hser, resp, fullSeen, shut, port, nreq, storeVars, file>>

\* line 148: while server_thread.is_alive()
LoopTest(a) ==
    /\ pc[a] = "loop"
    /\ Goto(a, IF ThreadAlive(a) THEN "timeout_check" ELSE "final_check")
    /\ UNCHANGED authFrame

\* the poll loop without lines 149-153
TimeoutCheck_NoTimeout(a) ==
    /\ pc[a] = "timeout_check"
    /\ Goto(a, "poll_code")
    /\ UNCHANGED authFrame

\* lines 149-153
TimeoutCheck(a) ==
    /\ pc[a] = "timeout_check"
    /\ IF expired[a] THEN Return(a, "timeout") ELSE Goto(a, "poll_code")
    /\ UNCHANGED authFrame

\* the suspension at line 158 gives the event loop away
Sleep(a) ==
    /\ pc' = [pc EXCEPT ![a] = "sleeping"]
    /\ running' = Free
    /\ UNCHANGED result

\* line 155, left operand; line 158 when it is falsy
PollCode(a) ==
    /\ pc[a] = "poll_code"
    /\ IF authorization_code # None THEN Goto(a, "poll_state") ELSE Sleep(a)
    /\ UNCHANGED authFrame

\* line 155, right operand, and the break of line 156; line 158 when it is falsy
PollState(a) ==
    /\ pc[a] = "poll_state"
    /\ IF state # None THEN Goto(a, "final_check") ELSE Sleep(a)
    /\ UNCHANGED authFrame

\* asyncio.sleep(1) returns once the event loop is free
Wake(a) ==
    /\ pc[a] = "sleeping" /\ running = Free
    /\ pc' = [pc EXCEPT ![a] = "loop"]
    /\ running' = <<"auth", a>>
    /\ UNCHANGED <<result, authFrame>>

\* the wall clock passes start_time + 300 s
Tick(a) ==
    /\ pc[a] \in {"loop", "timeout_check", "poll_code", "poll_state", "sleeping"}
    /\ ~expired[a]
    /\ expired' = [expired EXCEPT ![a] = TRUE]
    /\ UNCHANGED <<hasId, hasSecret, authorization_code, state, codeBy, codeReq, stateReq, codeSt, pc, result,
                   browser, url_state, url_code, usedBy, usedReq, usedStReq, usedSt, got, tokens, clobbered, overlap,
                   lpc, hpc, hreq, hser, resp, fullSeen, shut, port, nreq, running, storeVars, file>>

\* lines 160-164
FinalCheck(a) ==
    /\ pc[a] = "final_check"
    /\ IF authorization_code = None THEN Return(a, "nocode") ELSE Goto(a, "read_state")
    /\ UNCHANGED authFrame

\* line 166, first placeholder
ReadState(a) ==
    /\ pc[a] = "read_state"
    /\ url_state' = [url_state EXCEPT ![a] = state]
    /\ usedStReq' = [usedStReq EXCEPT ![a] = stateReq]
    /\ Goto(a, "read_code")
    /\ UNCHANGED <<hasId, hasSecret, authorization_code, state, codeBy, codeReq, stateReq, codeSt, browser,
                   expired, url_code, usedBy, usedReq, usedSt, got, tokens, clobbered, overlap, lpc, hpc,
                   hreq, hser, resp, fullSeen, shut, port, nreq, storeVars, file>>

\* line 166, second placeholder
ReadCode(a) ==
    /\ pc[a] = "read_code"
    /\ url_code' = [url_code EXCEPT ![a] = authorization_code]
    /\ usedBy' = [usedBy EXCEPT ![a] = codeBy]
    /\ usedReq' = [usedReq EXCEPT ![a] = codeReq]
    /\ usedSt' = [usedSt EXCEPT ![a] = codeSt]
    /\ Goto(a, "exchange")
    /\ UNCHANGED <<hasId, hasSecret, authorization_code, state, codeBy, codeReq, stateReq, codeSt, browser,
                   expired, url_state, usedStReq, got, tokens, clobbered, overlap, lpc, hpc, hreq, hser, resp, fullSeen, shut,
                   port, nreq, storeVars, file>>

\* line 167: the flow refuses a state that is not its own; the token endpoint accepts or
\* rejects a code it issued for this client (to this user for one of the attempts, or to
\* whoever forged the request), and rejects the text "None"
FetchToken(a) ==
    /\ pc[a] = "exchange"
    /\ IF url_state[a] # a
         THEN Return(a, "failed") /\ UNCHANGED tokens
         ELSE \E ok \in BOOLEAN :
                IF ok /\ url_code[a] # None
                  THEN /\ tokens' = [tokens EXCEPT ![a] = TRUE]
                       /\ Goto(a, "open_file")
                  ELSE Return(a, "failed") /\ UNCHANGED tokens
    /\ UNCHANGED <<hasId, hasSecret, authorization_code, state, codeBy, codeReq, stateReq, codeSt, browser,
                   expired, url_state, url_code, usedBy, usedReq, usedStReq, usedSt, got, clobbered, overlap, lpc, hpc,
                   hreq, hser, resp, fullSeen, shut, port, nreq, storeVars, file>>

authFrameNoFile == <<hasId, hasSecret, authorization_code, state, codeBy, codeReq, stateReq, codeSt, browser,
                     expired, url_state, url_code, usedBy, usedReq, usedStReq, usedSt, got, tokens, clobbered, overlap,
                     lpc, hpc, hreq, hser, resp, fullSeen, shut, port, nreq, storeVars>>

\* line 170: open(TOKEN_PATH, 'w') truncates the file, or raises
OpenToken(a) ==
    /\ pc[a] = "open_file"
    /\ \E ok \in BOOLEAN :
         IF ok THEN file' = Torn /\ Goto(a, "write_file")
               ELSE UNCHANGED file /\ Return(a, "io_error")
    /\ UNCHANGED authFrameNoFile

\* lines 171-176: the write and the close, or an I/O error part-way (line 178)
WriteToken(a) ==
    /\ pc[a] = "write_file"
    /\ \E ok \in BOOLEAN :
         IF ok THEN file' = Cred(TRUE, Future, "auth") /\ Return(a, "success")
               ELSE file' = Torn /\ Return(a, "io_error")
    /\ UNCHANGED authFrameNoFile

\* ---------------------------------------------------------------- the listener
listenerFrame == <<hasId, hasSecret, pc, result, browser, expired, url_state, url_code,
                   usedBy, usedReq, usedStReq, usedSt, tokens, clobbered, overlap, running, storeVars, file>>

\* line 47: TCPServer binds PORT in its constructor; when the port is held the
\* constructor raises and the thread ends
Bind(a) ==
    /\ lpc[a] = "starting"
    /\ IF port = 0
         THEN port' = a /\ lpc' = [lpc EXCEPT ![a] = "serving"]
         ELSE UNCHANGED port /\ lpc' = [lpc EXCEPT ![a] = "crashed"]
    /\ UNCHANGED <<authorization_code, state, codeBy, codeReq, stateReq, codeSt, got, hpc, hreq, hser, resp, fullSeen, shut,
                   nreq, listenerFrame>>

\* line 50: serve_forever takes the next request unless shutdown was requested
Accept(a) ==
    /\ lpc[a] = "serving" /\ shut[a] # "requested"
    /\ nreq < MaxRequests
    /\ nreq' = nreq + 1
    /\ \E r \in Incoming :
         /\ hreq' = [hreq EXCEPT ![a] = r]
         /\ fullSeen' = (fullSeen \/ HasBoth(r))
    /\ hser' = [hser EXCEPT ![a] = nreq + 1]
    /\ lpc' = [lpc EXCEPT ![a] = "handling"]
    /\ hpc' = [hpc EXCEPT ![a] = "route"]
    /\ UNCHANGED <<authorization_code, state, codeBy, codeReq, stateReq, codeSt, got, resp, shut, port,
                   listenerFrame>>

\* the shutdown of line 35 placed after the if/else: every request stops the listener
Route_ShutdownAlways(a) ==
    /\ hpc[a] = "route"
    /\ IF hreq[a].path = CallbackPath
         THEN /\ hpc' = [hpc EXCEPT ![a] = IF BothParams(hreq[a]) THEN "set_state"
                                                                 ELSE "respond"]
              /\ UNCHANGED resp
         ELSE /\ resp' = [resp EXCEPT ![a] = 404]
              /\ hpc' = [hpc EXCEPT ![a] = "spawn"]
    /\ UNCHANGED <<authorization_code, state, codeBy, codeReq, stateReq, codeSt, got, lpc, hreq, hser, fullSeen, shut, port,
                   nreq, listenerFrame>>

\* lines 14-18 and 36-40
Route(a) ==
    /\ hpc[a] = "route"
    /\ IF hreq[a].path = CallbackPath
         THEN /\ hpc' = [hpc EXCEPT ![a] = IF BothParams(hreq[a]) THEN "set_state"
                                                                 ELSE "respond"]
              /\ UNCHANGED <<lpc, resp>>
         ELSE /\ resp' = [resp EXCEPT ![a] = 404]
              /\ hpc' = [hpc EXCEPT ![a] = "none"]
              /\ lpc' = [lpc EXCEPT ![a] = "serving"]
    /\ UNCHANGED <<authorization_code, state, codeBy, codeReq, stateReq, codeSt, got, hreq, hser, fullSeen, shut, port,
                   nreq, listenerFrame>>

\* line 19
SetState(a) ==
    /\ hpc[a] = "set_state"
    /\ state' = hreq[a].st
    /\ stateReq' = hser[a]
    /\ hpc' = [hpc EXCEPT ![a] = "set_code"]
    /\ UNCHANGED <<authorization_code, codeBy, codeReq, codeSt, got, lpc, hreq, hser, resp, fullSeen, shut, port,
                   nreq, listenerFrame>>

\* line 20
SetCode(a) ==
    /\ hpc[a] = "set_code"
    /\ authorization_code' = hreq[a].code
    /\ codeBy' = a /\ codeReq' = hser[a] /\ codeSt' = hreq[a].st
    /\ got' = [got EXCEPT ![a] = got[a] \/ (hreq[a] = Redirect(a) /\ Active(a)
                                              /\ ~expired[a])]
    /\ hpc' = [hpc EXCEPT ![a] = "respond"]
    /\ UNCHANGED <<state, stateReq, lpc, hreq, hser, resp, fullSeen, shut, port, nreq, listenerFrame>>

\* lines 22-33
Respond(a) ==
    /\ hpc[a] = "respond"
    /\ resp' = [resp EXCEPT ![a] = 200]
    /\ hpc' = [hpc EXCEPT ![a] = "spawn"]
    /\ UNCHANGED <<authorization_code, state, codeBy, codeReq, stateReq, codeSt, got, lpc, hreq, hser, fullSeen, shut,
                   port, nreq, listenerFrame>>

\* line 35 as a direct call of self.server.shutdown(): the handler sets the request and
\* waits for serve_forever to end, which waits for the handler
SpawnShutdown_Direct(a) ==
    /\ hpc[a] = "spawn"
    /\ shut' = [shut EXCEPT ![a] = "requested"]
    /\ hpc' = [hpc EXCEPT ![a] = "wait"]
    /\ UNCHANGED <<authorization_code, state, codeBy, codeReq, stateReq, codeSt, got, lpc, hreq, hser, resp, fullSeen, port, nreq,
                   listenerFrame>>

\* line 35; the handler returns to serve_forever
SpawnShutdown(a) ==
    /\ hpc[a] = "spawn"
    /\ shut' = [shut EXCEPT ![a] = IF shut[a] = "requested" THEN "requested" ELSE "spawned"]
    /\ hpc' = [hpc EXCEPT ![a] = "none"]
    /\ lpc' = [lpc EXCEPT ![a] = "serving"]
    /\ UNCHANGED <<authorization_code, state, codeBy, codeReq, stateReq, codeSt, got, hreq, hser, resp, fullSeen, port, nreq,
                   listenerFrame>>

\* server.shutdown() in its own thread sets the shutdown request
SetShutdown(a) ==
    /\ shut[a] = "spawned"
    /\ shut' = [shut EXCEPT ![a] = "requested"]
    /\ UNCHANGED <<authorization_code, state, codeBy, codeReq, stateReq, codeSt, got, lpc, hpc, hreq, hser, resp, fullSeen,
                   port, nreq, listenerFrame>>

\* lines 50-51: serve_forever sees the request between two requests and returns; the
\* thread ends, and the server, referenced by nothing, is reclaimed with its socket
Stop(a) ==
    /\ lpc[a] = "serving" /\ shut[a] = "requested"
    /\ lpc' = [lpc EXCEPT ![a] = "stopped"]
    /\ port' = IF port = a THEN 0 ELSE port
    /\ UNCHANGED <<authorization_code, state, codeBy, codeReq, stateReq, codeSt, got, hpc, hreq, hser, resp, fullSeen, shut,
                   nreq, listenerFrame>>

Next ==
    \/ \E a \in Attempts :
         \/ AuthCall(a) \/ ResetCode(a) \/ ResetState(a) \/ Launch(a)
         \/ LoopTest(a) \/ TimeoutCheck(a) \/ PollCode(a) \/ PollState(a)
         \/ Wake(a) \/ Tick(a) \/ FinalCheck(a) \/ ReadState(a) \/ ReadCode(a)
         \/ FetchToken(a) \/ OpenToken(a) \/ WriteToken(a)
         \/ Bind(a) \/ Route(a) \/ SetState(a) \/ SetCode(a) \/ Respond(a)
         \/ SpawnShutdown(a) \/ SetShutdown(a) \/ Stop(a) \/ Accept(a)

Spec == Init /\ [][Next]_vars

\* the steps of the coroutine of attempt a once it was called: the event loop runs a
\* ready coroutine, and a sleeping one when its second has passed
Orchestrator(a) ==
    \/ ResetCode(a) \/ ResetState(a) \/ Launch(a) \/ LoopTest(a) \/ TimeoutCheck(a)
    \/ PollCode(a) \/ PollState(a) \/ Wake(a) \/ FinalCheck(a) \/ ReadState(a)
    \/ ReadCode(a) \/ FetchToken(a) \/ OpenToken(a) \/ WriteToken(a)

\* the steps of the listener thread of attempt a that need no request to arrive
ListenerThread(a) ==
    \/ Bind(a) \/ Route(a) \/ SetState(a) \/ SetCode(a) \/ Respond(a)
    \/ SpawnShutdown(a) \/ Stop(a)

\* ---------------------------------------------------------------- check_auth_status
\* process 1 is the process of the coroutines above; process 2 is another server
\* process of the same user, sharing TOKEN_PATH
Refreshed == Cred(TRUE, Future, "refresh")

\* what TOKEN_PATH holds after a write through a handle opened when ino was i: the
\* data reach the path unless os.remove has unlinked the opened file since (the
\* handle then writes to a file no path names)
Written(i, c) == IF i = ino THEN c ELSE file

CasGoto(p, l) ==
    /\ cpc' = [cpc EXCEPT ![p] = l]
    /\ UNCHANGED <<cres, running>>

CasReturn(p, r) ==
    /\ cpc' = [cpc EXCEPT ![p] = "done"]
    /\ cres' = [cres EXCEPT ![p] = r]
    /\ running' = IF p = 1 THEN Free ELSE running

casFrame == <<authVars, now, upc, ucred, ures, dl, ut, absentAtCheck, utried, ufailed, uino,
              useen, inserted>>

CasCall(p) ==
    /\ cpc[p] = "idle"
    /\ p = 1 => running = Free
    /\ cpc' = [cpc EXCEPT ![p] = "exists"]
    /\ running' = IF p = 1 THEN <<"cas", 1>> ELSE running
    /\ UNCHANGED <<cres, ccred, seen, ctried, cfailed, ino, cino, file, casFrame>>

\* lines 67-71
CasExists(p) ==
    /\ cpc[p] = "exists"
    /\ IF file.kind = "absent" THEN CasReturn(p, "not_authenticated")
                               ELSE CasGoto(p, "read")
    /\ UNCHANGED <<ccred, seen, ctried, cfailed, ino, cino, file, casFrame>>

\* lines 73-78 and 94-97; open or json.load raise on a missing or torn file (line 99)
CasRead(p) ==
    /\ cpc[p] = "read"
    /\ seen' = [seen EXCEPT ![p] = file]
    /\ IF file.kind # "cred"
         THEN CasReturn(p, "error") /\ UNCHANGED ccred
         ELSE /\ ccred' = [ccred EXCEPT ![p] = file]
              /\ IF Expired(file) /\ file.rt THEN CasGoto(p, "refresh")
                                             ELSE CasReturn(p, "authenticated")
    /\ UNCHANGED <<ctried, cfailed, ino, cino, file, casFrame>>

\* line 80: the provider refreshes the token, or refresh raises (line 87)
CasRefresh(p) ==
    /\ cpc[p] = "refresh"
    /\ ctried' = [ctried EXCEPT ![p] = TRUE]
    /\ \E ok \in BOOLEAN :
         IF ok THEN /\ ccred' = [ccred EXCEPT ![p] = Refreshed]
                    /\ CasGoto(p, "open")
                    /\ UNCHANGED cfailed
               ELSE /\ cfailed' = [cfailed EXCEPT ![p] = TRUE]
                    /\ CasGoto(p, "remove")
                    /\ UNCHANGED ccred
    /\ UNCHANGED <<seen, ino, cino, file, casFrame>>

\* line 81: open(TOKEN_PATH, 'w') truncates the file, or raises (line 87)
CasOpen(p) ==
    /\ cpc[p] = "open"
    /\ \E ok \in BOOLEAN :
         IF ok THEN file' = Torn /\ CasGoto(p, "write")
               ELSE UNCHANGED file /\ CasGoto(p, "remove")
    /\ cino' = [cino EXCEPT ![p] = ino]
    /\ UNCHANGED <<ccred, seen, ctried, cfailed, ino, casFrame>>

\* lines 82-86: the write and the close, or an I/O error part-way (line 87)
CasWrite(p) ==
    /\ cpc[p] = "write"
    /\ \E ok \in BOOLEAN :
         IF ok THEN file' = Written(cino[p], ccred[p]) /\ CasReturn(p, "refreshed")
               ELSE file' = Written(cino[p], Torn) /\ CasGoto(p, "remove")
    /\ UNCHANGED <<ccred, seen, ctried, cfailed, ino, cino, casFrame>>

\* lines 88-92; os.remove raises when the file is gone already (line 99)
CasRemove(p) ==
    /\ cpc[p] = "remove"
    /\ IF file.kind = "absent"
         THEN UNCHANGED <<file, ino>> /\ CasReturn(p, "error")
         ELSE file' = Absent /\ ino' = ino + 1 /\ CasReturn(p, "refresh_failed")
    /\ UNCHANGED <<ccred, seen, ctried, cfailed, cino, casFrame>>

\* the wall clock of credentials.expired
StoreTick ==
    /\ now < MaxNow
    /\ now' = now + 1
    /\ UNCHANGED <<authVars, cpc, ccred, cres, seen, ctried, cfailed, ino, cino, upc,
                   ucred, ures, dl, ut, absentAtCheck, utried, ufailed, uino, useen,
                   inserted, running, file>>

\* ---------------------------------------------------------------- upload_from_url
UpGoto(u, l) ==
    /\ upc' = [upc EXCEPT ![u] = l]
    /\ UNCHANGED <<ures, running>>

UpReturn(u, r) ==
    /\ upc' = [upc EXCEPT ![u] = "done"]
    /\ ures' = [ures EXCEPT ![u] = r]
    /\ running' = Free

upFrame == <<authVars, now, cpc, ccred, cres, seen, ctried, cfailed, ino, cino>>

UpCall(u) ==
    /\ upc[u] = "idle" /\ running = Free
    /\ \A v \in Uploads : v < u => upc[v] # "idle"
    /\ upc' = [upc EXCEPT ![u] = "exists"]
    /\ running' = <<"up", u>>
    /\ UNCHANGED <<ures, ucred, dl, ut, absentAtCheck, utried, ufailed, uino, useen, inserted,
                   file, upFrame>>

\* lines 315-319 without the test of the token file
UpExists_NoCheck(u) ==
    /\ upc[u] = "exists"
    /\ absentAtCheck' = [absentAtCheck EXCEPT ![u] = (file.kind = "absent")]
    /\ UpGoto(u, "download")
    /\ UNCHANGED <<ucred, dl, ut, utried, ufailed, uino, useen, inserted, file, upFrame>>

\* lines 315-319
UpExists(u) ==
    /\ upc[u] = "exists"
    /\ absentAtCheck' = [absentAtCheck EXCEPT ![u] = (file.kind = "absent")]
    /\ IF file.kind = "absent" THEN UpReturn(u, "not_authenticated")
                               ELSE UpGoto(u, "download")
    /\ UNCHANGED <<ucred, dl, ut, utried, ufailed, uino, useen, inserted, file, upFrame>>

\* lines 321-326 without the test of download_result["success"]
Download_Ignored(u) ==
    /\ upc[u] = "download"
    /\ \E ok \in BOOLEAN :
         /\ dl' = [dl EXCEPT ![u] = IF ok THEN "ok" ELSE "failed"]
         /\ UpGoto(u, "ut_exists")
    /\ UNCHANGED <<ucred, ut, absentAtCheck, utried, ufailed, uino, useen, inserted, file,
                   upFrame>>

\* lines 321-326, with download_video (lines 191-214): the file is fetched, or
\* requests raises and download_video returns success=False
Download(u) ==
    /\ upc[u] = "download"
    /\ \E ok \in BOOLEAN :
         /\ dl' = [dl EXCEPT ![u] = IF ok THEN "ok" ELSE "failed"]
         /\ IF ok THEN UpGoto(u, "ut_exists") ELSE UpReturn(u, "download_failed")
    /\ UNCHANGED <<ucred, ut, absentAtCheck, utried, ufailed, uino, useen, inserted, file,
                   upFrame>>

\* lines 328 and 232-244: upload_to_youtube is entered; the downloaded file exists
UtExists(u) ==
    /\ upc[u] = "ut_exists"
    /\ ut' = [ut EXCEPT ![u] = TRUE]
    /\ IF file.kind = "absent" THEN UpReturn(u, "not_authenticated_at_upload")
                               ELSE UpGoto(u, "ut_read")
    /\ UNCHANGED <<ucred, dl, absentAtCheck, utried, ufailed, uino, useen, inserted, file,
                   upFrame>>

\* lines 246-251; open or json.load raise on a missing or torn file (line 290)
UtRead(u) ==
    /\ upc[u] = "ut_read"
    /\ useen' = [useen EXCEPT ![u] = file]
    /\ IF file.kind # "cred"
         THEN UpReturn(u, "upload_failed") /\ UNCHANGED ucred
         ELSE /\ ucred' = [ucred EXCEPT ![u] = file]
              /\ UpGoto(u, IF Expired(file) /\ file.rt THEN "ut_refresh" ELSE "ut_insert")
    /\ UNCHANGED <<dl, ut, absentAtCheck, utried, ufailed, uino, inserted, file, upFrame>>

\* line 252: the provider refreshes the token, or refresh raises (line 290)
UtRefresh(u) ==
    /\ upc[u] = "ut_refresh"
    /\ utried' = [utried EXCEPT ![u] = TRUE]
    /\ \E ok \in BOOLEAN :
         IF ok THEN /\ ucred' = [ucred EXCEPT ![u] = Refreshed]
                    /\ UpGoto(u, "ut_open")
                    /\ UNCHANGED ufailed
               ELSE /\ ufailed' = [ufailed EXCEPT ![u] = TRUE]
                    /\ UpReturn(u, "upload_failed")
                    /\ UNCHANGED ucred
    /\ UNCHANGED <<dl, ut, absentAtCheck, uino, useen, inserted, file, upFrame>>

\* line 253: open(TOKEN_PATH, 'w') truncates the file, or raises (line 290)
UtOpen(u) ==
    /\ upc[u] = "ut_open"
    /\ \E ok \in BOOLEAN :
         IF ok THEN file' = Torn /\ UpGoto(u, "ut_write")
               ELSE UNCHANGED file /\ UpReturn(u, "upload_failed")
    /\ uino' = [uino EXCEPT ![u] = ino]
    /\ UNCHANGED <<ucred, dl, ut, absentAtCheck, utried, ufailed, useen, inserted, upFrame>>

\* line 254: the write and the close, or an I/O error part-way (line 290)
UtWrite(u) ==
    /\ upc[u] = "ut_write"
    /\ \E ok \in BOOLEAN :
         IF ok THEN file' = Written(uino[u], ucred[u]) /\ UpGoto(u, "ut_insert")
               ELSE file' = Written(uino[u], Torn) /\ UpReturn(u, "upload_failed")
    /\ UNCHANGED <<ucred, dl, ut, absentAtCheck, utried, ufailed, uino, useen, inserted,
                   upFrame>>

\* lines 257-289 and 336-341: the API call is made with the credentials; it succeeds
\* only with a credential that is valid or can be refreshed by the client library
UtInsert(u) ==
    /\ upc[u] = "ut_insert"
    /\ inserted' = [inserted EXCEPT ![u] = ucred[u]]
    /\ \E ok \in BOOLEAN :
         IF ok /\ (~Expired(ucred[u]) \/ ucred[u].rt)
           THEN UpReturn(u, "uploaded")
           ELSE UpReturn(u, "upload_failed")
    /\ UNCHANGED <<ucred, dl, ut, absentAtCheck, utried, ufailed, uino, useen, file, upFrame>>

InitOfStore ==
    /\ InitAuth /\ hasId /\ hasSecret
    /\ InitStore
    /\ running = Free
    /\ file \in StoredAtStart

NextStore ==
    \/ \E p \in Procs :
         \/ CasCall(p) \/ CasExists(p) \/ CasRead(p) \/ CasRefresh(p)
         \/ CasOpen(p) \/ CasWrite(p) \/ CasRemove(p)
    \/ \E u \in Uploads :
         \/ UpCall(u) \/ UpExists(u) \/ Download(u) \/ UtExists(u) \/ UtRead(u)
         \/ UtRefresh(u) \/ UtOpen(u) \/ UtWrite(u) \/ UtInsert(u)
    \/ StoreTick

SpecStore == InitOfStore /\ [][NextStore]_vars

\* ---------------------------------------------------------------- all tools, scheduled
\* the work handed to the server: tool calls made and requests sent to the port
MaxLoad == 3

Load ==
    Cardinality({a \in Attempts : pc[a] # "idle"}) + nreq
      + Cardinality({p \in Procs : cpc[p] # "idle"})
      + Cardinality({u \in Uploads : upc[u] # "idle"})

\* the environment: a client calls a tool, a request reaches the port
CallAuthenticate(a) == Load < MaxLoad /\ AuthCall(a)
CallCheckAuthStatus(p) == Load < MaxLoad /\ CasCall(p)
CallUploadFromUrl(u) == Load < MaxLoad /\ UpCall(u)
RequestArrives(a) == Load < MaxLoad /\ Accept(a)

\* the steps of check_auth_status in process p once it was called
CheckAuthStatus(p) ==
    \/ CasExists(p) \/ CasRead(p) \/ CasRefresh(p) \/ CasOpen(p) \/ CasWrite(p)
    \/ CasRemove(p)

\* the steps of upload_from_url once it was called
UploadFromUrl(u) ==
    \/ UpExists(u) \/ Download(u) \/ UtExists(u) \/ UtRead(u) \/ UtRefresh(u)
    \/ UtOpen(u) \/ UtWrite(u) \/ UtInsert(u)

\* the token file at start: none, or an expired credential with a refresh token
InitFair ==
    /\ InitAuth /\ InitStore
    /\ running = Free
    /\ file \in {Absent, Cred(TRUE, 0, "old")}

NextFair ==
    \/ \E a \in Attempts :
         \/ CallAuthenticate(a) \/ RequestArrives(a) \/ Orchestrator(a)
         \/ ListenerThread(a) \/ SetShutdown(a) \/ Tick(a)
    \/ \E p \in Procs : CallCheckAuthStatus(p) \/ CheckAuthStatus(p)
    \/ \E u \in Uploads : CallUploadFromUrl(u) \/ UploadFromUrl(u)

\* threads and ready coroutines get to run, calls to the provider and to the file
\* system return, and time passes; whether a tool is called and whether a request
\* arrives is up to the environment
Fairness ==
    /\ \A a \in Attempts :
          /\ WF_vars(Orchestrator(a)) /\ WF_vars(ListenerThread(a))
          /\ WF_vars(SetShutdown(a)) /\ WF_vars(Tick(a))
    /\ \A p \in Procs : WF_vars(CheckAuthStatus(p))
    /\ \A u \in Uploads : WF_vars(UploadFromUrl(u))

FairSpec == InitFair /\ [][NextFair]_vars /\ Fairness

\* ================================================================ claims
\* ---------------------------------------------------------------- Spec

\* C1: in a sequence of attempts (the attempt was called when no other one was
\* running), the code an attempt puts into its token exchange was not captured by
\* the listener of an earlier attempt.
C1_NoCaptureByEarlierListener ==
    \A a \in Attempts :
        (pc[a] = "exchange" /\ ~overlap[a]) => ~(usedBy[a] # 0 /\ usedBy[a] < a)

\* C2: once authenticate() has returned the timeout failure of an attempt whose
\* listener never received a request, that listener is not serving and does not
\* hold the port.
C2_TimeoutReleasesPort ==
    \A a \in Attempts :
        (result[a] = "timeout" /\ hser[a] = 0) =>
            (lpc[a] \notin {"serving", "handling"} /\ port # a)

\* C3: overlapping calls are serialized or rejected: no two attempts that have both
\* started a listener thread run at the same time, no reset clears a captured value
\* while another attempt runs, and no captured request is exchanged by two attempts.
C3_OverlapSerialized ==
    /\ \A a, b \in Attempts :
          (a # b /\ Active(a) /\ Active(b)) => ~(lpc[a] # "none" /\ lpc[b] # "none")
    /\ ~clobbered
    /\ \A a, b \in Attempts : (a # b /\ usedReq[a] # 0) => usedReq[a] # usedReq[b]

\* C5: an attempt whose own listener captured the redirect carrying its code and its
\* state before the timeout does not return the timeout failure or the
\* failed-to-receive failure; once the token endpoint has returned tokens it writes
\* the token file and returns success (an I/O error of the write apart).
C5_CapturedCallbackIsExchanged ==
    \A a \in Attempts :
        (pc[a] = "done" /\ got[a]) =>
            /\ result[a] \notin {"timeout", "nocode"}
            /\ tokens[a] => result[a] \in {"success", "io_error"}

\* C6: with the client id or the client secret unset, the call of authenticate()
\* returns the configuration failure in one step that changes nothing else, and the
\* attempt never opens the browser, starts a listener thread or exchanges a code.
C6_ConfigMissingHasNoEffect ==
    /\ [](\A a \in Attempts :
            result[a] = "config" =>
                (pc[a] = "done" /\ ~browser[a] /\ lpc[a] = "none" /\ ~tokens[a]
                   /\ port # a))
    /\ [][\A a \in Attempts :
            (pc[a] = "idle" /\ pc'[a] # "idle" /\ (~hasId \/ ~hasSecret)) =>
                /\ pc'[a] = "done" /\ result'[a] = "config"
                /\ UNCHANGED <<authorization_code, state, browser, lpc, hpc, shut, port,
                               nreq, tokens, url_state, url_code, file>>]_vars

C6_Witness ==
    \E a \in Attempts : result[a] = "config" /\ hasId /\ ~hasSecret /\ file.kind = "cred"

\* ---------------------------------------------------------------- SpecStore

\* C4: no reader of the token file (check_auth_status in either process, or the
\* upload path) reads it truncated or partly written.
C4_NoTornRead ==
    /\ \A p \in Procs : seen[p].kind # "torn"
    /\ \A u \in Uploads : useen[u].kind # "torn"

\* C7: when an operation returns after its refresh call failed, the token file is
\* absent, in check_auth_status and in the upload path alike.
C7_RefreshFailureDeletesFile ==
    [][/\ \A p \in Procs :
            (cfailed'[p] /\ cpc[p] # "done" /\ cpc'[p] = "done") =>
                (file'.kind = "absent" /\ cres'[p] \in {"refresh_failed", "error"})
       /\ \A u \in Uploads :
            (ufailed'[u] /\ upc[u] # "done" /\ upc'[u] = "done") =>
                (file'.kind = "absent" /\ ures'[u] = "upload_failed")]_vars

\* C8: an operation that called refresh either returns a failure, or goes on (to
\* report authenticated, or to the API call) with the refreshed, unexpired
\* credential, which is what the token file holds at the step where it goes on.
C8_RefreshedOrFailure ==
    /\ [](/\ \A p \in Procs :
               (ctried[p] /\ cpc[p] = "done") =>
                  /\ cres[p] \in {"refreshed", "refresh_failed", "error"}
                  /\ cres[p] = "refreshed" => (ccred[p] = Refreshed /\ ~Expired(ccred[p]))
          /\ \A u \in Uploads :
               /\ (utried[u] /\ upc[u] = "ut_insert") =>
                      (ucred[u] = Refreshed /\ ~Expired(ucred[u]))
               /\ (utried[u] /\ upc[u] = "done") =>
                      \/ ures[u] = "upload_failed"
                      \/ (ures[u] = "uploaded" /\ inserted[u] = Refreshed))
    /\ [][/\ \A p \in Procs :
               (ctried[p] /\ cpc[p] # "done" /\ cres'[p] = "refreshed") =>
                   file' = ccred'[p]
          /\ \A u \in Uploads :
               (utried[u] /\ upc[u] # "ut_insert" /\ upc'[u] = "ut_insert") =>
                   file' = ucred'[u]]_vars

\* C9: a call of upload_from_url that finds no token file at its check returns the
\* not-authenticated failure, and neither download_video nor upload_to_youtube is
\* started by it.
C9_NoTokenNoDownload ==
    \A u \in Uploads :
        absentAtCheck[u] =>
            (upc[u] = "done" /\ ures[u] = "not_authenticated" /\ dl[u] = "none" /\ ~ut[u])

C9_Witness ==
    \E u \in Uploads : absentAtCheck[u] /\ ures[u] = "not_authenticated"

\* C10: upload_to_youtube is entered only after download_video succeeded; when the
\* download failed, upload_from_url has returned the download's failure and the
\* upload step was not entered.
C10_UploadOnlyAfterDownload ==
    \A u \in Uploads :
        /\ (ut[u] \/ upc[u] \in {"ut_exists", "ut_read", "ut_refresh", "ut_open",
                                 "ut_write", "ut_insert"}) => dl[u] = "ok"
        /\ dl[u] = "failed" =>
               (upc[u] = "done" /\ ures[u] = "download_failed" /\ ~ut[u])

C10_Witness ==
    \E u \in Uploads : dl[u] = "failed" /\ ures[u] = "download_failed"

\* ---------------------------------------------------------------- the listener's run
\* C11: once a listener has answered a request to the callback path (the shutdown thread
\* was started, line 35), that listener handles no later request: it accepts none, so
\* nothing can overwrite the captured values.
C11_OneCallbackPerRun ==
    [][\A a \in Attempts : shut[a] # "none" => hser'[a] = hser[a]]_vars

\* C12: a request on any other path is answered 404 and changes nothing else: the
\* captured code and state, the shutdown thread and the port are as before, and the
\* listener is back in serve_forever, where it accepts a later request.
C12_OtherPathChangesNothing ==
    [][\A a \in Attempts :
          (hpc[a] = "route" /\ hreq[a].path # CallbackPath /\ hpc'[a] # "route") =>
              /\ resp'[a] = 404
              /\ UNCHANGED <<authorization_code, state, shut, port>>
              /\ hpc'[a] = "none" /\ lpc'[a] = "serving"]_vars

C12_Witness ==
    \E a \in Attempts : resp[a] = 404 /\ lpc[a] = "serving" /\ shut[a] = "none"

\* C13: a listener that is serving and has received no request eventually leaves
\* serve_forever by itself, or a request arrives.
C13_IdleListenerStops ==
    \A a \in Attempts :
        (lpc[a] = "serving" /\ hser[a] = 0) ~> (lpc[a] # "serving" \/ hser[a] # 0)

\* ---------------------------------------------------------------- termination
\* the structured results of authenticate(): lines 111, 150, 161, 174, 179
AuthResults == {"config", "timeout", "nocode", "success", "failed", "io_error"}
\* of check_auth_status: lines 68, 83, 89, 94, 100
CasResults == {"not_authenticated", "refreshed", "refresh_failed", "authenticated", "error"}
\* of upload_from_url: lines 316, 323, 335, 343
UpResults == {"not_authenticated", "download_failed", "not_authenticated_at_upload",
              "upload_failed", "uploaded"}

\* a tool was called and has not returned
Busy ==
    \/ \E a \in Attempts : pc[a] \notin {"idle", "done"}
    \/ \E p \in Procs : cpc[p] \notin {"idle", "done"}
    \/ \E u \in Uploads : upc[u] \notin {"idle", "done"}

\* C14: every call of a tool eventually returns (again and again no call is pending;
\* a call that returned stays returned), and what it returns is one of the tool's
\* structured results; in particular the poll loop of authenticate() is left, by a
\* captured callback, by the end of the listener thread, or by the timeout.
C14_EveryToolReturns ==
    /\ []<>(~Busy)
    /\ [](/\ \A a \in Attempts : pc[a] = "done" => result[a] \in AuthResults
          /\ \A p \in Procs : cpc[p] = "done" => cres[p] \in CasResults
          /\ \A u \in Uploads : upc[u] = "done" => ures[u] \in UpResults)

C14_Witness ==
    /\ \E a \in Attempts : pc[a] = "done" /\ result[a] = "timeout"
    /\ \E p \in Procs : cpc[p] = "done" /\ cres[p] = "refresh_failed"

\* ---------------------------------------------------------------- what is captured
\* C15: the listener stores a code or a state only out of a callback request that
\* carries both; every handled callback request is answered 200 and starts the shutdown
\* thread. As long as no callback request with both parameters has reached the port,
\* nothing is captured, no attempt goes on to the token exchange or touches the token
\* file, no attempt returns success, and an attempt that left its loop without a code
\* did so because its listener thread had ended.
C15_CaptureNeedsBothParams ==
    /\ [][/\ (authorization_code' # authorization_code /\ authorization_code' # None) =>
               \E a \in Attempts : /\ hpc[a] = "set_code" /\ HasBoth(hreq[a])
                                    /\ authorization_code' = hreq[a].code
          /\ (state' # state /\ state' # None) =>
               \E a \in Attempts : /\ hpc[a] = "set_state" /\ HasBoth(hreq[a])
                                    /\ state' = hreq[a].st
          /\ \A a \in Attempts :
               /\ (hpc[a] = "route" /\ hreq[a].path = CallbackPath /\ hpc'[a] # "route")
                     => hpc'[a] \in {"set_state", "respond"}
               /\ (hpc[a] = "spawn" /\ hpc'[a] # "spawn")
                     => (resp[a] = 200 /\ shut'[a] # "none")]_vars
    /\ [](~fullSeen =>
            /\ authorization_code = None /\ state = None
            /\ file \in {Absent, Cred(TRUE, Future, "old")}
            /\ \A a \in Attempts :
                 /\ ~tokens[a]
                 /\ pc[a] \notin {"read_state", "read_code", "exchange", "open_file",
                                   "write_file"}
                 /\ result[a] \notin {"success", "failed", "io_error"}
                 /\ result[a] = "nocode" => ~ThreadAlive(a))

C15_Witness ==
    \E a \in Attempts :
        /\ ~fullSeen /\ hreq[a] \in {NoParams, CodeOnly} /\ resp[a] = 200
        /\ lpc[a] = "stopped" /\ result[a] = "nocode"

\* ---------------------------------------------------------------- the shutdown
\* a listener whose shutdown was triggered and that has not stopped
ShutdownPending == \E a \in Attempts : shut[a] # "none" /\ lpc[a] # "stopped"

\* C16: the shutdown triggered inside request handling does not deadlock: when the
\* shutdown thread is started the 200 response has been written and the handler
\* returns to serve_forever in that same step, and every listener whose shutdown was
\* triggered reaches its stopped state (again and again none is pending; a stopped
\* listener stays stopped).
C16_ShutdownCompletes ==
    /\ [][\A a \in Attempts :
             (shut[a] = "none" /\ shut'[a] # "none") =>
                 (resp[a] = 200 /\ hpc'[a] = "none" /\ lpc'[a] = "serving")]_vars
    /\ []<>(~ShutdownPending)

C16_Witness ==
    \E a \in Attempts : shut[a] = "requested" /\ lpc[a] = "stopped" /\ resp[a] = 200

\* ---------------------------------------------------------------- the save
\* C17: when the save of lines 170-171 fails, authenticate() returns its failure with
\* the token file as it was before the save began (unchanged when open failed), and in
\* no case truncated or partly written.
C17_FailedSaveLeavesFileWhole ==
    [][\A a \in Attempts :
          (result[a] # "io_error" /\ result'[a] = "io_error") =>
              \/ pc[a] = "open_file" /\ file' = file
              \/ file'.kind # "torn"]_vars

\* ---------------------------------------------------------------- the pair read
\* C18: the state and the code an attempt has put into its callback URL (line 166) are
\* both set and were both written by the handling of one and the same request.
C18_PairFromOneRequest ==
    \A a \in Attempts :
        pc[a] = "exchange" =>
            /\ url_state[a] # None /\ url_code[a] # None
            /\ usedStReq[a] = usedReq[a]

\* ---------------------------------------------------------------- the state check
\* C20: an attempt obtains tokens, writes the token file or returns success only if the
\* state it read from the capture is the state of its own authorization URL, and the
\* code it exchanged came in a callback that carried that same state: a callback with a
\* code and another state never leads to a persisted credential.
C20_OnlyOwnStatePersists ==
    \A a \in Attempts :
        (tokens[a] \/ pc[a] \in {"open_file", "write_file"} \/ result[a] = "success") =>
            (url_state[a] = a /\ usedSt[a] = a)

\* ---------------------------------------------------------------- SpecStore
\* C19: when check_auth_status returns authenticated=true the token file holds a
\* credential that is not expired; an expired credential without a refresh token is
\* not reported as authenticated.
C19_AuthenticatedMeansValid ==
    [][\A p \in Procs :
          (cpc[p] # "done" /\ cpc'[p] = "done"
             /\ cres'[p] \in {"authenticated", "refreshed"}) =>
              (file'.kind = "cred" /\ file'.exp > now')]_vars


====
